---------------------------- MODULE Spec2Model ----------------------------
(***************************************************************************)
(* Manuscript ingestion service (src/main.py): format inference, the four  *)
(* text extractors, the table-of-contents heuristic, the sample builder,   *)
(* the POST /api/ingest handler and the two GET /api/manuscript handlers.  *)
(*                                                                         *)
(* A Python str is a sequence of one-character strings; a byte buffer is a *)
(* sequence of such characters and of InvalidByte.  An Optional value is a *)
(* sequence of length 0 (None) or 1.                                       *)
(***************************************************************************)
EXTENDS Integers, Sequences, FiniteSets, TLC

VARIABLES store, resp, last, okCount, failed

vars == <<store, resp, last, okCount, failed>>

-----------------------------------------------------------------------------
(* Characters and the str methods the code uses.                           *)

LowerMap == [A |-> "a", B |-> "b", C |-> "c", D |-> "d", E |-> "e", F |-> "f", G |-> "g", H |-> "h", I |-> "i", J |-> "j", K |-> "k", L |-> "l", M |-> "m", N |-> "n", O |-> "o", P |-> "p", Q |-> "q", R |-> "r", S |-> "s", T |-> "t", U |-> "u", V |-> "v", W |-> "w", X |-> "x", Y |-> "y", Z |-> "z"]

LowerLetters == {"a", "b", "c", "d", "e", "f", "g", "h", "i", "j", "k", "l", "m", "n", "o", "p", "q", "r", "s", "t", "u", "v", "w", "x", "y", "z"}

Digits == {"0", "1", "2", "3", "4", "5", "6", "7", "8", "9"}

IsUpperChar(c) == c \in DOMAIN LowerMap

IsLowerChar(c) == c \in LowerLetters

\* \w of the re module, on the modelled alphabet
IsWordChar(c) == IsUpperChar(c) \/ IsLowerChar(c) \/ c \in Digits \/ c = "_"

\* the characters str.split() and str.strip() treat as whitespace
IsWs(c) == c \in {" ", "\t", "\n"}

IsLineBreak(c) == c = "\n"

Min2(a, b) == IF a <= b THEN a ELSE b

None == <<>>

Some(v) == <<v>>

\* s[:n]
Take(s, n) == SubSeq(s, 1, Min2(n, Len(s)))

LowerChar(c) == IF IsUpperChar(c) THEN LowerMap[c] ELSE c

\* str.lower()
StrLower(s) == [i \in 1..Len(s) |-> LowerChar(s[i])]

\* sub in s
Contains(s, sub) ==
    \E i \in 1..(Len(s) - Len(sub) + 1) : SubSeq(s, i, i + Len(sub) - 1) = sub

\* s.endswith(suf)
EndsWith(s, suf) ==
    Len(suf) <= Len(s) /\ SubSeq(s, Len(s) - Len(suf) + 1, Len(s)) = suf

StartsWith(s, pre) == Len(pre) <= Len(s) /\ SubSeq(s, 1, Len(pre)) = pre

\* str.strip()
Strip(s) ==
    IF \A i \in 1..Len(s) : IsWs(s[i]) THEN <<>>
    ELSE LET lo == CHOOSE i \in 1..Len(s) :
                      ~IsWs(s[i]) /\ \A j \in 1..(i - 1) : IsWs(s[j])
             hi == CHOOSE i \in 1..Len(s) :
                      ~IsWs(s[i]) /\ \A j \in (i + 1)..Len(s) : IsWs(s[j])
         IN SubSeq(s, lo, hi)

\* str.split() on s[lo..hi]: the maximal runs of non-whitespace characters,
\* in order.  The two halves are scanned apart and a run that crosses the
\* middle is glued together again.
RECURSIVE SplitRange(_, _, _)
SplitRange(s, lo, hi) ==
    IF lo > hi THEN <<>>
    ELSE IF lo = hi THEN (IF IsWs(s[lo]) THEN <<>> ELSE << <<s[lo]>> >>)
    ELSE LET mid == (lo + hi) \div 2
             L == SplitRange(s, lo, mid)
             R == SplitRange(s, mid + 1, hi)
         IN IF L # <<>> /\ R # <<>> /\ ~IsWs(s[mid]) /\ ~IsWs(s[mid + 1])
            THEN SubSeq(L, 1, Len(L) - 1) \o << L[Len(L)] \o R[1] >> \o Tail(R)
            ELSE L \o R

Split(s) == SplitRange(s, 1, Len(s))

\* The pieces of s[lo..hi] between line breaks, empty pieces included.
RECURSIVE LineRange(_, _, _)
LineRange(s, lo, hi) ==
    IF lo > hi THEN << <<>> >>
    ELSE IF lo = hi
         THEN (IF IsLineBreak(s[lo]) THEN << <<>>, <<>> >> ELSE << <<s[lo]>> >>)
    ELSE LET mid == (lo + hi) \div 2
             L == LineRange(s, lo, mid)
             R == LineRange(s, mid + 1, hi)
         IN SubSeq(L, 1, Len(L) - 1) \o << L[Len(L)] \o R[1] >> \o Tail(R)

\* str.splitlines(): a trailing line break opens no further line
SplitLines(s) ==
    LET pieces == LineRange(s, 1, Len(s))
    IN IF pieces[Len(pieces)] = <<>> THEN SubSeq(pieces, 1, Len(pieces) - 1)
       ELSE pieces

\* sep.join(parts[lo..hi])
RECURSIVE JoinRange(_, _, _, _)
JoinRange(parts, sep, lo, hi) ==
    IF lo > hi THEN <<>>
    ELSE IF lo = hi THEN parts[lo]
    ELSE LET mid == (lo + hi) \div 2
         IN JoinRange(parts, sep, lo, mid) \o sep \o JoinRange(parts, sep, mid + 1, hi)

Join(sep, parts) == JoinRange(parts, sep, 1, Len(parts))

\* str.isupper(): some cased character, and no lower-case one
StrIsUpper(s) ==
    /\ \E i \in 1..Len(s) : IsUpperChar(s[i])
    /\ \A i \in 1..Len(s) : ~IsLowerChar(s[i])

-----------------------------------------------------------------------------
(* _infer_format                                                           *)

S_docx == <<"d", "o", "c", "x">>

S_pdf == <<"p", "d", "f">>

S_epub == <<"e", "p", "u", "b">>

S_md == <<"m", "d">>

S_dot_docx == <<".", "d", "o", "c", "x">>

S_export_docx == <<"/", "e", "x", "p", "o", "r", "t", "?", "f", "o", "r", "m", "a", "t", "=", "d", "o", "c", "x">>

S_dot_pdf == <<".", "p", "d", "f">>

S_format_pdf == <<"f", "o", "r", "m", "a", "t", "=", "p", "d", "f">>

S_dot_epub == <<".", "e", "p", "u", "b">>

S_dot_md == <<".", "m", "d">>

S_raw_github == <<"r", "a", "w", ".", "g", "i", "t", "h", "u", "b", "u", "s", "e", "r", "c", "o", "n", "t", "e", "n", "t", ".", "c", "o", "m">>

KnownFormats == {S_docx, S_pdf, S_epub, S_md}

\* the truth value of an Optional[str]: None and "" are both false
Truthy(opt) == opt # None /\ opt[1] # <<>>

\* a plausible slip: the URL is looked at before the hint
InferFormat_UrlFirst(url, hint) ==
    LET url_l == StrLower(url)
    IN IF Contains(url_l, S_dot_docx) THEN S_docx
       ELSE IF Contains(url_l, S_export_docx) THEN S_docx
       ELSE IF EndsWith(url_l, S_dot_pdf) \/ Contains(url_l, S_format_pdf) THEN S_pdf
       ELSE IF EndsWith(url_l, S_dot_epub) THEN S_epub
       ELSE IF EndsWith(url_l, S_dot_md) \/ Contains(url_l, S_raw_github) THEN S_md
       ELSE IF Truthy(hint) THEN StrLower(hint[1])
       ELSE S_docx

InferFormat(url, hint) ==
    IF Truthy(hint) THEN StrLower(hint[1])
    ELSE LET url_l == StrLower(url)
         IN IF Contains(url_l, S_dot_docx) THEN S_docx
            ELSE IF Contains(url_l, S_export_docx) THEN S_docx
            ELSE IF EndsWith(url_l, S_dot_pdf) \/ Contains(url_l, S_format_pdf) THEN S_pdf
            ELSE IF EndsWith(url_l, S_dot_epub) THEN S_epub
            ELSE IF EndsWith(url_l, S_dot_md) \/ Contains(url_l, S_raw_github) THEN S_md
            ELSE S_docx

-----------------------------------------------------------------------------
(* The extractors.  The fetched content is what the bytes are: kind is the *)
(* container the bytes really hold ("docx", "pdf", "epub" or "text"),      *)
(* corrupt says that the container cannot be opened, parts is what a       *)
(* parser of that kind finds in it, and bytes is the raw buffer.  An       *)
(* extractor returns [ok, text]; ok = FALSE stands for a raised exception. *)

Raised == [ok |-> FALSE, text |-> <<>>]

Returned(text) == [ok |-> TRUE, text |-> text]

S_blank == <<"\n", "\n">>

S_space == <<" ">>

PdfPageCap == 50

HttpOk == 200

HttpBadRequest == 400

HttpNotFound == 404

HttpServerError == 500

\* Document(io.BytesIO(file_bytes)) raises on anything but a readable docx
\* package; parts are the paragraphs' texts in document order
ExtractDocx(content) ==
    IF content.kind # "docx" \/ content.corrupt THEN Raised
    ELSE LET stripped == [i \in 1..Len(content.parts) |-> Strip(content.parts[i])]
             paragraphs == SelectSeq(stripped, LAMBDA text : text # <<>>)
         IN Returned(Join(S_blank, paragraphs))

\* a plausible slip: a page whose extraction fails aborts the whole extraction
ExtractPdf_AbortOnPage(content) ==
    IF content.kind # "pdf" \/ content.corrupt THEN Raised
    ELSE LET pages == Take(content.parts, PdfPageCap)
         IN IF \E i \in 1..Len(pages) : pages[i].st = "fail" THEN Raised
            ELSE Returned(Join(S_blank, [i \in 1..Len(pages) |-> pages[i].text]))

\* parts are the pages: st = "fail" when page.extract_text() raises, "none"
\* when it returns None, "text" when it returns text.  A failed page is
\* skipped by `continue`: nothing is appended for it.
ExtractPdf(content) ==
    IF content.kind # "pdf" \/ content.corrupt THEN Raised
    ELSE LET pages == Take(content.parts, PdfPageCap)
             done == SelectSeq(pages, LAMBDA page : page.st # "fail")
             texts == [i \in 1..Len(done) |->
                          IF done[i].st = "text" THEN done[i].text ELSE <<>>]
         IN Returned(Join(S_blank, texts))

\* BeautifulSoup(html, 'html.parser').get_text(" "): the strings between the
\* tags, joined by one space
RECURSIVE HtmlStrings(_, _, _, _, _)
HtmlStrings(html, i, inTag, cur, acc) ==
    LET flushed == IF cur = <<>> THEN acc ELSE Append(acc, cur)
    IN IF i > Len(html) THEN flushed
       ELSE IF inTag
            THEN HtmlStrings(html, i + 1, html[i] # ">", <<>>, acc)
       ELSE IF html[i] = "<"
            THEN HtmlStrings(html, i + 1, TRUE, <<>>, flushed)
       ELSE HtmlStrings(html, i + 1, FALSE, Append(cur, html[i]), acc)

GetText(html, sep) == Join(sep, HtmlStrings(html, 1, FALSE, <<>>, <<>>))

\* parts are the items of the book: type is "document" or another item
\* type, st = "unreadable" when item.get_content() or the markup parser
\* raises.  Nothing in the loop catches that exception.
ExtractEpub(content) ==
    IF content.kind # "epub" \/ content.corrupt THEN Raised
    ELSE LET docs == SelectSeq(content.parts, LAMBDA item : item.type = "document")
         IN IF \E i \in 1..Len(docs) : docs[i].st = "unreadable" THEN Raised
            ELSE Returned(Join(S_blank, [i \in 1..Len(docs) |-> GetText(docs[i].html, S_space)]))

InvalidByte == "<bad>"

\* file_bytes.decode("utf-8", errors="ignore"): undecodable bytes are dropped
ExtractMd(content) ==
    Returned(SelectSeq(content.bytes, LAMBDA b : b # InvalidByte))

\* a plausible slip: the dispatch has no else branch and falls back to text
ExtractText_FallThrough(fmt, content) ==
    LET r == IF fmt = S_docx THEN ExtractDocx(content)
             ELSE IF fmt = S_pdf THEN ExtractPdf(content)
             ELSE IF fmt = S_epub THEN ExtractEpub(content)
             ELSE ExtractMd(content)
    IN IF r.ok THEN [outcome |-> "ok", code |-> HttpOk, text |-> r.text]
       ELSE [outcome |-> "parse_error", code |-> HttpServerError, text |-> <<>>]

\* a plausible slip: no `except HTTPException: raise`, so the unsupported
\* format is caught by `except Exception` and reported as a parse failure
ExtractText_NoReraise(fmt, content) ==
    LET r == IF fmt = S_docx THEN ExtractDocx(content)
             ELSE IF fmt = S_pdf THEN ExtractPdf(content)
             ELSE IF fmt = S_epub THEN ExtractEpub(content)
             ELSE IF fmt = S_md THEN ExtractMd(content)
             ELSE Raised
    IN IF r.ok THEN [outcome |-> "ok", code |-> HttpOk, text |-> r.text]
       ELSE [outcome |-> "parse_error", code |-> HttpServerError, text |-> <<>>]

\* the dispatch of ingest_manuscript and its two except clauses
ExtractText(fmt, content) ==
    IF fmt \notin KnownFormats
    THEN [outcome |-> "unsupported", code |-> HttpBadRequest, text |-> <<>>]
    ELSE LET r == IF fmt = S_docx THEN ExtractDocx(content)
                  ELSE IF fmt = S_pdf THEN ExtractPdf(content)
                  ELSE IF fmt = S_epub THEN ExtractEpub(content)
                  ELSE ExtractMd(content)
         IN IF r.ok THEN [outcome |-> "ok", code |-> HttpOk, text |-> r.text]
            ELSE [outcome |-> "parse_error", code |-> HttpServerError, text |-> <<>>]

-----------------------------------------------------------------------------
(* _extract_toc_from_text and _make_sample                                 *)

S_chapter == <<"c", "h", "a", "p", "t", "e", "r">>

S_part == <<"p", "a", "r", "t">>

S_section == <<"s", "e", "c", "t", "i", "o", "n">>

TocMaxLineLen == 80

TocMaxWords == 6

TocMinLen == 3

TocScanLines == 800

TocCollectCap == 30

TocMaxEntries == 20

SampleWords == 1200

\* re.match(r"^(chapter|part|section)\b", l.lower())
HeadingPrefix(l) ==
    LET low == StrLower(l)
    IN \E w \in {S_chapter, S_part, S_section} :
          /\ StartsWith(low, w)
          /\ Len(low) = Len(w) \/ ~IsWordChar(low[Len(w) + 1])

\* l.endswith(('.', '!', '?'))
EndsPunct(l) == l # <<>> /\ l[Len(l)] \in {".", "!", "?"}

HeadingLike(l) ==
    /\ Len(l) <= TocMaxLineLen
    /\ StrIsUpper(l) \/ HeadingPrefix(l) \/ Len(Split(l)) <= TocMaxWords
    /\ Len(l) >= TocMinLen
    /\ ~EndsPunct(l)

\* the de-duplication loop: h is kept when it is not among those seen
RECURSIVE Unique(_, _)
Unique(toc, unique) ==
    IF toc = <<>> THEN unique
    ELSE Unique(Tail(toc),
                IF \E i \in 1..Len(unique) : unique[i] = toc[1] THEN unique
                ELSE Append(unique, toc[1]))

TocLines(full_text) ==
    LET raw == SplitLines(full_text)
        stripped == [i \in 1..Len(raw) |-> Strip(raw[i])]
    IN SelectSeq(stripped, LAMBDA l : l # <<>>)

\* a plausible slip: the collected lines are returned without de-duplication
ExtractToc_NoDedup(full_text) ==
    Take(Take(SelectSeq(Take(TocLines(full_text), TocScanLines), HeadingLike),
              TocCollectCap), TocMaxEntries)

\* The scan appends the heading-like lines of lines[:800] and breaks once 30
\* are collected: toc is the first 30 heading-like lines of the first 800.
ExtractToc(full_text) ==
    LET lines == TocLines(full_text)
        toc == Take(SelectSeq(Take(lines, TocScanLines), HeadingLike), TocCollectCap)
    IN Take(Unique(toc, <<>>), TocMaxEntries)

\* a plausible slip: the words are not cut
MakeSample_NoCut(full_text) == Strip(Join(S_space, Split(full_text)))

MakeSample(full_text) ==
    LET words == Split(full_text)
        snippet == Join(S_space, Take(words, SampleWords))
    IN Strip(snippet)

\* len(full_text.split())
WordCount(full_text) == Len(Split(full_text))

-----------------------------------------------------------------------------
(* The persistence collaborator (database.py, not among the sources): the  *)
(* collection is the sequence of its documents in insertion order.  up is  *)
(* whether the database answers; a call on a database that is down raises. *)

\* create_document(collection, record) -> id: one document more, or an
\* exception and no write
CreateDocument(docs, record, up) ==
    IF up
    THEN [ok |-> TRUE, id |-> Len(docs) + 1,
          docs |-> Append(docs, [id |-> Len(docs) + 1, doc |-> record])]
    ELSE [ok |-> FALSE, id |-> 0, docs |-> docs]

\* get_documents(collection, filter, limit): the documents in insertion
\* order (most recent last), cut to the first `limit`
GetDocuments(docs, limit, up) ==
    IF up THEN [ok |-> TRUE, docs |-> Take(docs, limit)]
    ELSE [ok |-> FALSE, docs |-> <<>>]

-----------------------------------------------------------------------------
(* The handlers.  A handler maps the collection, the request and what the  *)
(* environment does (the fetch, the database) to the response, the new     *)
(* collection and a trace of the call.  A fetch is [kind |-> "error"] when *)
(* requests.get raises, else a response with a status and a content.       *)

RespTocEntries == 10

HttpError(code, detail) == [code |-> code, body |-> [detail |-> detail]]

Ok(body) == [code |-> HttpOk, body |-> body]

\* `x or None`
OrNone(x) == IF x = <<>> THEN None ELSE Some(x)

\* Manuscript(source_url=..., format=fmt, ..., word_count=word_count)
Manuscript(req, fmt, toc, sample_text, word_count) ==
    [source_url |-> req.source_url, format |-> fmt, title |-> req.title,
     subtitle |-> req.subtitle, cover_url |-> req.cover_url,
     toc |-> OrNone(toc), sample_text |-> OrNone(sample_text),
     word_count |-> word_count]

Trace(req, net, up, fmt, stage, full_text, toc) ==
    [op |-> "ingest", req |-> req, net |-> net, up |-> up, fmt |-> fmt,
     stage |-> stage, full_text |-> full_text, toc |-> toc]

FetchFailed(net) == net.kind = "error" \/ net.status # HttpOk

\* a plausible slip: the record is written before the text is extracted
IngestManuscript_SaveFirst(docs, req, net, up) ==
    LET fmt == InferFormat(req.source_url, req.format)
        ex == ExtractText(fmt, net.content)
        toc == ExtractToc(ex.text)
        word_count == WordCount(ex.text)
        created == CreateDocument(docs, Manuscript(req, fmt, toc, MakeSample(ex.text),
                                                   word_count), up)
    IN IF FetchFailed(net)
       THEN [resp |-> HttpError(HttpBadRequest, "Error fetching document"), docs |-> docs,
             trace |-> Trace(req, net, up, fmt, "fetch", <<>>, <<>>)]
       ELSE IF ~created.ok
       THEN [resp |-> HttpError(HttpServerError, "Failed to save manuscript"),
             docs |-> created.docs,
             trace |-> Trace(req, net, up, fmt, "persist", ex.text, toc)]
       ELSE IF ex.outcome = "unsupported"
       THEN [resp |-> HttpError(ex.code, "Unsupported format"), docs |-> created.docs,
             trace |-> Trace(req, net, up, fmt, "dispatch", <<>>, <<>>)]
       ELSE IF ex.outcome = "parse_error"
       THEN [resp |-> HttpError(ex.code, "Failed to parse"), docs |-> created.docs,
             trace |-> Trace(req, net, up, fmt, "extract", <<>>, <<>>)]
       ELSE [resp |-> Ok([status |-> "ok", id |-> created.id, format |-> fmt,
                          word_count |-> word_count, toc |-> Take(toc, RespTocEntries)]),
             docs |-> created.docs,
             trace |-> Trace(req, net, up, fmt, "done", ex.text, toc)]

IngestManuscript(docs, req, net, up) ==
    LET fmt == InferFormat(req.source_url, req.format)
    IN IF FetchFailed(net)
       THEN [resp |-> HttpError(HttpBadRequest, "Error fetching document"), docs |-> docs,
             trace |-> Trace(req, net, up, fmt, "fetch", <<>>, <<>>)]
       ELSE LET ex == ExtractText(fmt, net.content)
            IN IF ex.outcome = "unsupported"
               THEN [resp |-> HttpError(ex.code, "Unsupported format"), docs |-> docs,
                     trace |-> Trace(req, net, up, fmt, "dispatch", <<>>, <<>>)]
               ELSE IF ex.outcome = "parse_error"
               THEN [resp |-> HttpError(ex.code, "Failed to parse"), docs |-> docs,
                     trace |-> Trace(req, net, up, fmt, "extract", <<>>, <<>>)]
               ELSE LET full_text == ex.text
                        toc == ExtractToc(full_text)
                        sample_text == MakeSample(full_text)
                        word_count == WordCount(full_text)
                        manuscript == Manuscript(req, fmt, toc, sample_text, word_count)
                        created == CreateDocument(docs, manuscript, up)
                    IN IF ~created.ok
                       THEN [resp |-> HttpError(HttpServerError, "Failed to save manuscript"),
                             docs |-> created.docs,
                             trace |-> Trace(req, net, up, fmt, "persist", full_text, toc)]
                       ELSE [resp |-> Ok([status |-> "ok", id |-> created.id, format |-> fmt,
                                          word_count |-> word_count,
                                          toc |-> Take(toc, RespTocEntries)]),
                             docs |-> created.docs,
                             trace |-> Trace(req, net, up, fmt, "done", full_text, toc)]

\* m.pop("_id", None)
Sanitized(m) == m.doc

GetLatestManuscript(docs, up) ==
    LET got == GetDocuments(docs, 1, up)
    IN IF ~got.ok THEN HttpError(HttpServerError, "database error")
       ELSE IF got.docs = <<>> THEN Ok([exists |-> FALSE])
       ELSE Ok([exists |-> TRUE, manuscript |-> Sanitized(got.docs[Len(got.docs)])])

\* a plausible slip: no check for an empty result
GetSample_EmptySuccess(docs, up) ==
    LET got == GetDocuments(docs, 1, up)
    IN IF ~got.ok THEN HttpError(HttpServerError, "database error")
       ELSE IF got.docs = <<>> THEN Ok([sample_text |-> None, toc |-> None])
       ELSE LET m == got.docs[Len(got.docs)].doc
            IN Ok([sample_text |-> m.sample_text, toc |-> m.toc])

GetSample(docs, up) ==
    LET got == GetDocuments(docs, 1, up)
    IN IF ~got.ok THEN HttpError(HttpServerError, "database error")
       ELSE IF got.docs = <<>> THEN HttpError(HttpNotFound, "No manuscript available")
       ELSE LET m == got.docs[Len(got.docs)].doc
            IN Ok([sample_text |-> m.sample_text, toc |-> m.toc])

-----------------------------------------------------------------------------
(* The inputs the handlers are run on: URLs, format hints, fetched         *)
(* contents and fetch outcomes.                                            *)

MaxStored == 2

MaxExtra == 2

Url_docx ==
    <<"h", "t", "t", "p", ":", "/", "/", "h", "/", "a", ".", "d", "o", "c",
      "x">>

Url_docx_upper ==
    <<"h", "t", "t", "p", ":", "/", "/", "h", "/", "A", ".", "D", "O", "C",
      "X", "?", "d", "l", "=", "1">>

Url_export ==
    <<"h", "t", "t", "p", ":", "/", "/", "h", "/", "d", "/", "e", "x", "p",
      "o", "r", "t", "?", "f", "o", "r", "m", "a", "t", "=", "d", "o", "c",
      "x">>

Url_pdf ==
    <<"h", "t", "t", "p", ":", "/", "/", "h", "/", "a", ".", "p", "d", "f">>

Url_format_pdf ==
    <<"h", "t", "t", "p", ":", "/", "/", "h", "/", "g", "e", "t", "?", "F",
      "O", "R", "M", "A", "T", "=", "P", "D", "F", "&", "x", "=", "1">>

Url_epub ==
    <<"h", "t", "t", "p", ":", "/", "/", "h", "/", "a", ".", "E", "P", "U",
      "B">>

Url_md ==
    <<"h", "t", "t", "p", ":", "/", "/", "h", "/", "a", ".", "m", "d">>

Url_raw ==
    <<"h", "t", "t", "p", "s", ":", "/", "/", "r", "a", "w", ".", "g", "i",
      "t", "h", "u", "b", "u", "s", "e", "r", "c", "o", "n", "t", "e", "n",
      "t", ".", "c", "o", "m", "/", "u", "/", "r", "/", "a">>

Url_pdf_inner ==
    <<"h", "t", "t", "p", ":", "/", "/", "h", "/", "a", ".", "p", "d", "f",
      "/", "v", "i", "e", "w">>

Url_plain ==
    <<"h", "t", "t", "p", ":", "/", "/", "h", "/", "a">>

Url_md_pdf ==
    <<"h", "t", "t", "p", ":", "/", "/", "h", "/", "a", ".", "m", "d", ".",
      "p", "d", "f">>

Url_epub_q ==
    <<"h", "t", "t", "p", ":", "/", "/", "h", "/", "a", ".", "e", "p", "u",
      "b", "?", "x">>

Line_chapter_one ==
    <<" ", " ", "C", "H", "A", "P", "T", "E", "R", " ", "O", "N", "E", " ",
      " ">>

Line_sentence ==
    <<"I", "t", " ", "w", "a", "s", " ", "a", " ", "d", "a", "r", "k", " ",
      "n", "i", "g", "h", "t", ".">>

Line_chapter_long ==
    <<"c", "h", "a", "p", "t", "e", "r", " ", "t", "w", "o", " ", "i", "n",
      " ", "w", "h", "i", "c", "h", " ", "t", "h", "e", " ", "h", "e", "r",
      "o", " ", "f", "i", "n", "a", "l", "l", "y", " ", "s", "e", "t", "s",
      " ", "o", "u", "t", " ", "a", "g", "a", "i", "n">>

Line_chapters_long ==
    <<"c", "h", "a", "p", "t", "e", "r", "s", " ", "o", "f", " ", "a", " ",
      "l", "o", "n", "g", " ", "l", "i", "f", "e", " ", "l", "i", "v", "e",
      "d", " ", "f", "a", "r", " ", "a", "w", "a", "y", " ", "f", "r", "o",
      "m", " ", "h", "o", "m", "e">>

Line_upper_long ==
    <<"A", "N", " ", "U", "P", "P", "E", "R", " ", "C", "A", "S", "E", " ",
      "L", "I", "N", "E", " ", "O", "F", " ", "M", "O", "R", "E", " ", "T",
      "H", "A", "N", " ", "S", "I", "X", " ", "W", "O", "R", "D", "S">>

Line_short ==
    <<"a", "b">>

Line_part_word ==
    <<"P", "a", "r", "t", "_", "1", " ", "i", "s", " ", "n", "o", "t", " ",
      "a", " ", "p", "a", "r", "t", " ", "h", "e", "a", "d", "i", "n", "g",
      " ", "i", "n", " ", "a", "n", "y", " ", "w", "a", "y">>

Line_section_long ==
    <<"s", "e", "c", "t", "i", "o", "n", " ", "3", ":", " ", "t", "h", "e",
      " ", "p", "l", "a", "n", " ", "w", "e", " ", "m", "a", "d", "e", " ",
      "t", "h", "a", "t", " ", "v", "e", "r", "y", " ", "s", "a", "m", "e",
      " ", "d", "a", "y">>

Line_intro ==
    <<"I", "n", "t", "r", "o">>

Line_chapter_again ==
    <<"C", "H", "A", "P", "T", "E", "R", " ", "O", "N", "E">>

Line_question ==
    <<"R", "e", "a", "l", "l", "y", "?">>

Line_intro_padded ==
    <<"\t", " ", "I", "n", "t", "r", "o", " ">>

Line_end ==
    <<"T", "h", "e", " ", "E", "n", "d">>

SmallText ==
    <<"H", "i", " ", "y", "o">>

TitleText ==
    <<"#", " ", "T", "i", "t", "l", "e", "\n", "\n", "H", "e", "l", "l", "o",
      " ", "w", "o", "r", "l", "d", " ", "f", "o", "o">>

PdfMagic ==
    <<"%", "P", "D", "F", "-", "1">>

ZipMagic ==
    <<"P", "K">>

Html_one ==
    <<"<", "h", "t", "m", "l", ">", "<", "b", "o", "d", "y", ">", "<", "h",
      "1", ">", "O", "n", "e", "<", "/", "h", "1", ">", "\n", "<", "p", ">",
      "f", "i", "r", "s", "t", " ", "<", "b", ">", "i", "t", "e", "m", "<",
      "/", "b", ">", "<", "/", "p", ">", "<", "/", "b", "o", "d", "y", ">",
      "<", "/", "h", "t", "m", "l", ">">>

Html_two ==
    <<"<", "p", ">", "T", "w", "o", "<", "/", "p", ">">>

S_newline == <<"\n">>

Alphabet ==
    <<"a", "b", "c", "d", "e", "f", "g", "h", "i", "j", "k", "l", "m", "n",
      "o", "p", "q", "r", "s", "t", "u", "v", "w", "x", "y", "z">>

DigitChars == <<"0", "1", "2", "3", "4", "5", "6", "7", "8", "9">>

Letter(i) == Alphabet[(i % Len(Alphabet)) + 1]

DigitOf(i) == DigitChars[(i % Len(DigitChars)) + 1]

\* one word of n characters
LongLine(n) == [i \in 1..n |-> IF i = 1 THEN "Z" ELSE "y"]

MiscLines ==
    <<Line_chapter_one, <<>>, Line_sentence, Line_chapter_long,
      Line_chapters_long, Line_upper_long, Line_short, Line_part_word,
      Line_section_long, Line_intro, Line_chapter_again, Line_question,
      Line_intro_padded, LongLine(TocMaxLineLen + 1), LongLine(TocMaxLineLen),
      Line_end>>

MiscText == Join(S_newline, MiscLines) \o S_newline

\* n words of one or two letters, parted by one or two whitespace characters
WordsText(n) ==
    [k \in 1..(3 * n) |->
        LET i == (k + 2) \div 3
        IN IF k % 3 = 1 THEN Letter(i)
           ELSE IF k % 3 = 2 THEN (IF i % 4 = 0 THEN Letter(i + 1) ELSE " ")
           ELSE (IF i % 3 = 0 THEN "\n" ELSE IF i % 3 = 1 THEN " " ELSE "\t")]

\* n heading lines "H01", "H02", ... that repeat after `period` lines
HeadingsText(n, period) ==
    [k \in 1..(4 * n) |->
        LET i == ((((k + 3) \div 4) - 1) % period) + 1
        IN IF k % 4 = 1 THEN "H"
           ELSE IF k % 4 = 2 THEN DigitOf(i \div 10)
           ELSE IF k % 4 = 3 THEN DigitOf(i)
           ELSE "\n"]

\* n lines "x." that are no headings, then the heading "END"
FillerText(n) ==
    [k \in 1..(3 * n) |-> IF k % 3 = 1 THEN "x" ELSE IF k % 3 = 2 THEN "." ELSE "\n"]
        \o <<"E", "N", "D">>

Around(n) == {k \in (n - MaxExtra)..(n + MaxExtra) : k >= 0}

Texts ==
    {<<>>, <<" ", "\n", "\t">>, SmallText, TitleText, MiscText}
        \cup {WordsText(n) : n \in Around(SampleWords) \cup {1, 2}}
        \cup {HeadingsText(n, n) : n \in Around(TocMaxEntries) \cup Around(TocCollectCap)}
        \cup {HeadingsText(TocCollectCap + MaxExtra, p) : p \in Around(TocMaxEntries)}
        \cup {FillerText(n) : n \in Around(TocScanLines)}

TextContent(bytes) == [kind |-> "text", corrupt |-> FALSE, bytes |-> bytes, parts |-> <<>>]

DocxContent(corrupt, paragraphs) ==
    [kind |-> "docx", corrupt |-> corrupt, bytes |-> ZipMagic \o <<InvalidByte>>,
     parts |-> paragraphs]

PdfContent(corrupt, pages) ==
    [kind |-> "pdf", corrupt |-> corrupt, bytes |-> PdfMagic \o <<InvalidByte>>,
     parts |-> pages]

EpubContent(corrupt, items) ==
    [kind |-> "epub", corrupt |-> corrupt, bytes |-> ZipMagic \o <<InvalidByte, "e">>,
     parts |-> items]

Page(st, text) == [st |-> st, text |-> text]

\* n pages "p<i>"; page `bad` (if among them) is of state st
Pages(n, bad, st) ==
    [i \in 1..n |-> IF i = bad THEN Page(st, <<>>)
                    ELSE Page("text", <<"p", DigitOf(i \div 10), DigitOf(i)>>)]

Item(type, st, html) == [type |-> type, st |-> st, html |-> html]

TextContents ==
    {TextContent(t) : t \in Texts}
        \cup {TextContent(<<InvalidByte>> \o SmallText \o <<InvalidByte, "\n">>)}

DocxContents ==
    {DocxContent(TRUE, <<>>), DocxContent(FALSE, <<>>),
     DocxContent(FALSE, <<Line_chapter_one, <<>>, <<" ", "\t">>, Line_sentence, Line_intro_padded>>)}

PdfContents ==
    {PdfContent(TRUE, <<>>), PdfContent(FALSE, <<>>)}
        \cup {PdfContent(FALSE, Pages(n, bad, st)) :
                 n \in Around(PdfPageCap) \cup {1, 3},
                 bad \in {0, 1, 2, PdfPageCap + 1}, st \in {"fail", "none"}}

EpubContents ==
    {EpubContent(TRUE, <<>>),
     EpubContent(FALSE, <<Item("document", "ok", Html_one), Item("image", "ok", <<>>),
                          Item("document", "ok", Html_two)>>),
     EpubContent(FALSE, <<Item("document", "unreadable", <<>>),
                          Item("document", "ok", Html_two)>>),
     EpubContent(FALSE, <<Item("image", "unreadable", <<>>),
                          Item("document", "ok", Html_two)>>)}

Contents == TextContents \cup DocxContents \cup PdfContents \cup EpubContents

SmallContents ==
    {TextContent(SmallText), PdfContent(FALSE, Pages(1, 0, "none"))}

NoContent == TextContent(<<>>)

FetchError == [kind |-> "error", status |-> 0, content |-> NoContent]

FetchResponse(status, content) == [kind |-> "response", status |-> status, content |-> content]

FetchOutcomes(contents) ==
    {FetchError, FetchResponse(HttpNotFound, NoContent)}
        \cup {FetchResponse(HttpOk, c) : c \in contents}

Urls ==
    {Url_docx, Url_docx_upper, Url_export, Url_pdf, Url_format_pdf, Url_epub, Url_md,
     Url_raw, Url_pdf_inner, Url_plain, Url_md_pdf, Url_epub_q}

Hints ==
    {None, Some(<<>>), Some(S_pdf), Some(<<"P", "D", "F">>), Some(<<"M", "d">>),
     Some(S_epub), Some(<<"D", "o", "c", "X">>), Some(<<"t", "x", "t">>)}

SmallUrls == {Url_pdf, Url_plain}

SmallHints == {None, Some(<<>>), Some(<<"M", "d">>), Some(<<"t", "x", "t">>)}

IngestRequest(url, hint, title) ==
    [source_url |-> url, format |-> hint, title |-> title, subtitle |-> None,
     cover_url |-> None]

-----------------------------------------------------------------------------
(* The state: the manuscript collection, the response to the last call, a  *)
(* trace of the last call, the number of ingestions answered ok and        *)
(* whether an ingestion has failed.                                        *)

Init ==
    /\ store = <<>>
    /\ resp = [code |-> 0, body |-> [detail |-> "none"]]
    /\ last = [op |-> "none"]
    /\ okCount = 0
    /\ failed = FALSE

Answer(r) ==
    /\ store' = r.docs
    /\ resp' = r.resp
    /\ last' = r.trace
    /\ okCount' = okCount + (IF r.resp.code = HttpOk THEN 1 ELSE 0)
    /\ failed' = (failed \/ r.resp.code # HttpOk)

\* POST /api/ingest, any number of times
Ingest ==
    /\ Len(store) < MaxStored
    /\ \E url \in SmallUrls, hint \in SmallHints, net \in FetchOutcomes(SmallContents),
          up \in BOOLEAN :
          Answer(IngestManuscript(store, IngestRequest(url, hint, None), net, up))

\* POST /api/ingest once, over the URLs and hints
IngestFormats ==
    /\ last.op = "none"
    /\ \E url \in Urls, hint \in Hints, net \in FetchOutcomes(SmallContents),
          title \in {None, Some(<<"T">>)} :
          Answer(IngestManuscript(store, IngestRequest(url, hint, title), net, TRUE))

\* POST /api/ingest once, over the contents
IngestContents ==
    /\ last.op = "none"
    /\ \E hint \in {Some(S_docx), Some(S_pdf), Some(S_epub), Some(S_md)},
          c \in Contents, up \in BOOLEAN :
          Answer(IngestManuscript(store, IngestRequest(Url_plain, hint, None),
                                  FetchResponse(HttpOk, c), up))

\* GET /api/manuscript/latest
GetLatest ==
    \E up \in BOOLEAN :
        /\ resp' = GetLatestManuscript(store, up)
        /\ last' = [op |-> "latest", up |-> up]
        /\ UNCHANGED <<store, okCount, failed>>

\* GET /api/manuscript/sample
GetSampleCall ==
    \E up \in BOOLEAN :
        /\ resp' = GetSample(store, up)
        /\ last' = [op |-> "sample", up |-> up]
        /\ UNCHANGED <<store, okCount, failed>>

Next == Ingest \/ GetLatest \/ GetSampleCall

Spec == Init /\ [][Next]_vars

NextOnce == IngestFormats \/ IngestContents \/ GetLatest \/ GetSampleCall

SpecOnce == Init /\ [][NextOnce]_vars

-----------------------------------------------------------------------------
(* The claims.                                                             *)

IsIngest == last.op = "ingest"

Fetched == IsIngest /\ ~FetchFailed(last.net)

Formats(docs) == {docs[i].doc.format : i \in 1..Len(docs)}

\* C1: an ingest call adds a record to the collection if and only if it is
\* answered ok: a call that fails at fetch, at dispatch, at extraction or at
\* persistence leaves the collection as it was, and a call answered ok
\* appends exactly one record.
C1_StoredIffOk ==
    [][last'.op = "ingest" =>
          IF resp'.code = HttpOk
          THEN /\ Len(store') = Len(store) + 1
               /\ SubSeq(store', 1, Len(store)) = store
               /\ resp'.body.status = "ok"
          ELSE store' = store]_vars

\* C1 witness: a call that failed at persistence after an earlier call had
\* stored its record.
C1_Witness ==
    /\ IsIngest /\ last.stage = "persist" /\ resp.code = HttpServerError
    /\ Len(store) = 1 /\ okCount = 1

\* C2 as stated: every stored record has one of the four formats, and every
\* ingest whose resolved tag is outside them ends in the unsupported-format
\* failure and stores nothing.
C2_Original ==
    [][/\ Formats(store') \subseteq KnownFormats
       /\ last'.op = "ingest" /\ last'.fmt \notin KnownFormats
             => /\ resp' = HttpError(HttpBadRequest, "Unsupported format")
                /\ store' = store]_vars

\* C2 as amended: every stored record has one of the four formats; an
\* ingest whose resolved tag is outside them stores nothing and ends in the
\* unsupported-format failure when its fetch succeeds, in the fetch failure
\* when it does not.
C2_FormatsKnown ==
    [][/\ Formats(store') \subseteq KnownFormats
       /\ last'.op = "ingest" /\ last'.fmt \notin KnownFormats
             => /\ store' = store
                /\ resp' = IF FetchFailed(last'.net)
                           THEN HttpError(HttpBadRequest, "Error fetching document")
                           ELSE HttpError(HttpBadRequest, "Unsupported format")]_vars

\* C2 witness: a record that came with the hint "Md" is stored, and a
\* fetched document with the hint "txt" has just been refused.
C2_Witness ==
    /\ Len(store) = 1
    /\ Fetched /\ last.fmt \notin KnownFormats /\ last.stage = "dispatch"
    /\ \E i \in 1..Len(store) :
          store[i].doc.source_url = Url_plain /\ store[i].doc.format = S_md

\* C3 as stated: after two or more ingestions answered ok, and with a
\* database that answers, GET /manuscript/sample returns the sample_text and
\* toc, and GET /manuscript/latest the record, of the manuscript ingested
\* most recently.
C3_LatestIsMostRecent ==
    LET newest == store[Len(store)].doc
    IN okCount >= 2 /\ last.op \in {"latest", "sample"} /\ last.up
          => IF last.op = "sample"
             THEN resp = Ok([sample_text |-> newest.sample_text, toc |-> newest.toc])
             ELSE resp = Ok([exists |-> TRUE, manuscript |-> newest])

\* C3 failing input: two ingestions answered ok whose records differ, then
\* a GET answered by the database.
C3_Reached ==
    /\ okCount >= 2 /\ last.op = "sample" /\ last.up
    /\ store[1].doc.sample_text # store[Len(store)].doc.sample_text

Analysed == IsIngest /\ last.stage \in {"persist", "done"}

\* the heading-like lines of the text, in the order of the text
Qualifying(text) == SelectSeq(TocLines(text), HeadingLike)

FirstAt(seq, x) ==
    CHOOSE i \in 1..Len(seq) : seq[i] = x /\ \A j \in 1..(i - 1) : seq[j] # x

\* C4: the table of contents computed from the extracted text has at most
\* 20 entries, has no entry twice, holds only heading-like lines of the text
\* and lists them in the order of their first occurrence among those lines;
\* the toc of the ok response is its first 10 entries (all, if fewer).
C4_TocBounded ==
    Analysed =>
        LET toc == last.toc
            Q == Qualifying(last.full_text)
        IN /\ Len(toc) <= TocMaxEntries
           /\ \A i, j \in 1..Len(toc) : i # j => toc[i] # toc[j]
           /\ \A i \in 1..Len(toc) : \E k \in 1..Len(Q) : Q[k] = toc[i]
           /\ \A i, j \in 1..Len(toc) : i < j => FirstAt(Q, toc[i]) < FirstAt(Q, toc[j])
           /\ last.stage = "done"
                 => /\ Len(resp.body.toc) = Min2(RespTocEntries, Len(toc))
                    /\ resp.body.toc = SubSeq(toc, 1, Len(resp.body.toc))

\* C4 witness: a text with more than 30 heading-like lines, some of them
\* repeated, gave 20 entries, and the response carries 10.
C4_Witness ==
    /\ IsIngest /\ last.stage = "done"
    /\ Len(Qualifying(last.full_text)) > TocCollectCap
    /\ \E i, j \in 1..TocCollectCap :
          i # j /\ Qualifying(last.full_text)[i] = Qualifying(last.full_text)[j]
    /\ Len(last.toc) = TocMaxEntries
    /\ Len(resp.body.toc) = RespTocEntries

\* where the whitespace-delimited tokens of the text start
TokenStarts(text) ==
    {i \in 1..Len(text) : ~IsWs(text[i]) /\ (i = 1 \/ IsWs(text[i - 1]))}

C6_Original ==
    IsIngest /\ last.req.format # None
        => last.fmt = StrLower(last.req.format[1])

\* C6 as amended: whenever a non-empty hint is supplied the resolved tag is
\* the lower-cased hint, whatever the URL; the empty string counts as no
\* hint, and the tag is then the one inferred from the URL.
C6_HintOverrides ==
    IsIngest =>
        LET hint == last.req.format
        IN IF hint # None /\ hint[1] # <<>>
           THEN /\ Len(last.fmt) = Len(hint[1])
                /\ \A i \in 1..Len(hint[1]) :
                      last.fmt[i] = IF hint[1][i] \in DOMAIN LowerMap
                                    THEN LowerMap[hint[1][i]] ELSE hint[1][i]
           ELSE last.fmt = InferFormat(last.req.source_url, None)

\* C6 witness: the hint "PDF" came with a URL that holds ".docx".
C6_Witness ==
    /\ IsIngest /\ last.req.format = Some(<<"P", "D", "F">>)
    /\ last.req.source_url = Url_docx /\ last.fmt = S_pdf

\* the texts of the readable document items of an EPUB
ReadableTexts(items) ==
    LET good == SelectSeq(items, LAMBDA item : item.type = "document" /\ item.st = "ok")
    IN [i \in 1..Len(good) |-> GetText(good[i].html, S_space)]

PartlyUnreadableEpub(content) ==
    /\ content.kind = "epub" /\ ~content.corrupt
    /\ \E i \in 1..Len(content.parts) :
          content.parts[i].type = "document" /\ content.parts[i].st = "unreadable"
    /\ \E i \in 1..Len(content.parts) :
          content.parts[i].type = "document" /\ content.parts[i].st = "ok"

\* C7 as stated: an EPUB with one unreadable and one valid document item is
\* extracted to the valid item's text alone, and the ingestion goes on to
\* persistence instead of ending in an extraction failure.
C7_EpubToleratesBadItem ==
    Fetched /\ last.fmt = S_epub /\ PartlyUnreadableEpub(last.net.content)
        => /\ last.stage \in {"persist", "done"}
           /\ last.full_text = Join(S_blank, ReadableTexts(last.net.content.parts))
           /\ last.up => resp.code = HttpOk

\* what the extractor chosen for a known tag does with the content
ExtractorRaises(fmt, content) ==
    ~(IF fmt = S_docx THEN ExtractDocx(content)
      ELSE IF fmt = S_pdf THEN ExtractPdf(content)
      ELSE IF fmt = S_epub THEN ExtractEpub(content)
      ELSE ExtractMd(content)).ok

\* C8: a failed ingestion is classified by the first stage that fails, in
\* the order fetch, dispatch, extraction, persistence: HTTP 400 for a fetch
\* failure (no response, or a status other than 200) and for an unknown tag,
\* HTTP 500 for an extractor failure and for a failed write; if no stage
\* fails the answer is ok.
C8_Classified ==
    IsIngest =>
        resp = IF FetchFailed(last.net)
               THEN HttpError(HttpBadRequest, "Error fetching document")
               ELSE IF InferFormat(last.req.source_url, last.req.format) \notin KnownFormats
               THEN HttpError(HttpBadRequest, "Unsupported format")
               ELSE IF ExtractorRaises(last.fmt, last.net.content)
               THEN HttpError(HttpServerError, "Failed to parse")
               ELSE IF ~last.up
               THEN HttpError(HttpServerError, "Failed to save manuscript")
               ELSE Ok(resp.body)

\* C8 witness: after a stored manuscript, a request with the unknown hint
\* "txt" got the status 404 from its source and was answered as a fetch
\* failure.
C8_Witness ==
    /\ IsIngest /\ last.net.kind = "response" /\ last.net.status = HttpNotFound
    /\ last.fmt \notin KnownFormats
    /\ resp = HttpError(HttpBadRequest, "Error fetching document")
    /\ Len(store) = 1

\* C9 as stated: while no ingestion has been answered ok, GET
\* /manuscript/sample answers 404 and GET /manuscript/latest answers
\* {exists: false}.
C9_Original ==
    okCount = 0 =>
        /\ last.op = "sample" => resp.code = HttpNotFound
        /\ last.op = "latest" => resp = Ok([exists |-> FALSE])

\* C9 as amended: while no ingestion has been answered ok, and when the
\* database answers, GET /manuscript/sample answers 404 and GET
\* /manuscript/latest answers {exists: false}; when the database query
\* raises, both answer 500.  Neither ever answers with a success that
\* carries sample, toc or manuscript data.
C9_AbsenceReported ==
    okCount = 0 =>
        /\ last.op = "sample"
              => resp = IF last.up
                        THEN HttpError(HttpNotFound, "No manuscript available")
                        ELSE HttpError(HttpServerError, "database error")
        /\ last.op = "latest"
              => resp = IF last.up THEN Ok([exists |-> FALSE])
                        ELSE HttpError(HttpServerError, "database error")

\* C9 witness: an ingestion has failed, none has been answered ok, and the
\* sample was asked for.
C9_Witness ==
    /\ okCount = 0 /\ failed /\ last.op = "sample" /\ last.up
    /\ resp.code = HttpNotFound

PdfExtracted ==
    /\ Fetched /\ last.fmt = S_pdf
    /\ last.net.content.kind = "pdf" /\ ~last.net.content.corrupt

\* the entries of the first k pages: none for a failed page
RECURSIVE PdfEntries(_, _)
PdfEntries(pages, k) ==
    IF k = 0 THEN <<>>
    ELSE IF pages[k].st = "fail" THEN PdfEntries(pages, k - 1)
    ELSE Append(PdfEntries(pages, k - 1),
                IF pages[k].st = "text" THEN pages[k].text ELSE <<>>)

=============================================================================
